---- MODULE Spec2Model ----
(***************************************************************************)
(* Model of the 6502 instruction core in src/src/cpu.rs and its opcode     *)
(* table in src/src/cpu/instructions.rs.                                   *)
(*                                                                         *)
(* The Cpu struct is the state.  Its lifecycle operations (load, reset,    *)
(* run) are actions; run's loop is taken one iteration per Step.  A Rust   *)
(* panic ends the life of the Cpu value: mode = "failed" is terminal and   *)
(* fault records what the panic message carries.                           *)
(*                                                                         *)
(* memory is the array [u8; 0xFFFF].  It is held sparsely, as the function *)
(* from the addresses whose byte is non-zero to that byte; every other     *)
(* index below MemoryLen holds 0.  A program (Vec<u8>) is held the same    *)
(* way: [len, at] with at the non-zero bytes by index.                     *)
(***************************************************************************)
EXTENDS Integers, Sequences, FiniteSets, TLC

\* ------------------------------------------------------------------ bounds

\* Lifecycle calls (load, reset, run, test-harness mem_write) made on one Cpu.
MaxCalls == 5

\* ------------------------------------------------------------ program constants

\* cpu.rs:8   const PROGRAM_START_ADDRESS: usize = 0x8000
PROGRAM_START_ADDRESS == 32768
\* cpu.rs:9   const PROGRAM_COUNTER_RESET_ADDRESS: u16 = 0xFFFC
PROGRAM_COUNTER_RESET_ADDRESS == 65532
\* cpu.rs:36  memory: [u8; 0xFFFF]  -- the array's length, indices 0 .. 0xFFFE
MemoryLen == 65535
\* cpu.rs:59 and cpu.rs:83  StatusFlags::from_bits_retain(0b0010_0100)
DefaultStatus == 36

\* cpu.rs:42-49  the bits of StatusFlags
Carry == 1
Zero == 2
InterruptDisable == 4
Decimal == 8
Overflow == 64
Negative == 128

\* cpu.rs:39-51  StatusFlags::all(): the union of the six declared flags (0xCF).
\* Bits 4 and 5 are not declared, so bitflags' truncating operations drop them.
FlagsAll == Carry + Zero + InterruptDisable + Decimal + Overflow + Negative

Byte == 0..255

\* ------------------------------------------------------------ u8 / u16 arithmetic

RECURSIVE BitAnd(_, _)
BitAnd(p, q) ==
    IF p = 0 \/ q = 0 THEN 0
    ELSE (p % 2) * (q % 2) + 2 * BitAnd(p \div 2, q \div 2)

BitOr(p, q) == p + q - BitAnd(p, q)

BitXor(p, q) == p + q - 2 * BitAnd(p, q)

\* !v on a u8
Not8(v) == 255 - v

\* Mutant: the sum is not reduced to 8 bits.
WrappingAdd8_unreduced(p, q) == p + q

\* Mutant: the sum stops at 0xFF (u8::saturating_add).
WrappingAdd8_saturating(p, q) == IF p + q > 255 THEN 255 ELSE p + q

\* u8::wrapping_add / wrapping_sub
WrappingAdd8(p, q) == (p + q) % 256

WrappingSub8(p, q) == (p - q + 256) % 256

\* Mutant: the sum is not reduced to 16 bits.
WrappingAdd16_unreduced(p, q) == p + q

\* u16::wrapping_add
WrappingAdd16(p, q) == (p + q) % 65536

\* v << 1 and v >> 1 on a u8 (the bit shifted out is lost)
Shl8(v) == (2 * v) % 256

Shr8(v) == v \div 2

\* ------------------------------------------------------------ results and panics

Ok(v) == [ok |-> TRUE, v |-> v]

\* A panic: kind names the panic site, byte the opcode its message shows (-1: none),
\* addr the address or array index its message shows (-1: none).
Panic(kind, byte, addr) == [ok |-> FALSE, kind |-> kind, byte |-> byte, addr |-> addr]

NoFault == [kind |-> "none", byte |-> -1, addr |-> -1]

FaultOf(r) == [kind |-> r.kind, byte |-> r.byte, addr |-> r.addr]

\* ------------------------------------------------------------ memory

\* self.memory[addr as usize], once the index is known to be in bounds
MemGet(mem, addr) == IF addr \in DOMAIN mem THEN mem[addr] ELSE 0

\* self.memory[addr as usize] = data, once the index is known to be in bounds
MemPut(mem, addr, data) ==
    IF data = 0
    THEN [k \in DOMAIN mem \ {addr} |-> mem[k]]
    ELSE [k \in DOMAIN mem \cup {addr} |-> IF k = addr THEN data ELSE mem[k]]

\* Indexing the array panics for an index >= its length.
mem_read(mem, addr) ==
    IF addr < MemoryLen THEN Ok(MemGet(mem, addr))
    ELSE Panic("index_out_of_bounds", -1, addr)

mem_write(mem, addr, data) ==
    IF addr < MemoryLen THEN Ok(MemPut(mem, addr, data))
    ELSE Panic("index_out_of_bounds", -1, addr)

\* Mutant: the word read high byte first.
mem_read_u16_big_endian(mem, addr) ==
    IF addr + 1 >= MemoryLen THEN Panic("index_out_of_bounds", -1, MemoryLen)
    ELSE Ok(MemGet(mem, addr) * 256 + MemGet(mem, addr + 1))

\* lo is read first, then hi at addr + 1; addr + 1 overflows u16 only for
\* addr = 0xFFFF, where the read of lo has already panicked.
mem_read_u16(mem, addr) ==
    LET lo == mem_read(mem, addr)
        hi == mem_read(mem, addr + 1)
    IN  IF ~lo.ok THEN lo
        ELSE IF ~hi.ok THEN hi
        ELSE Ok(hi.v * 256 + lo.v)

mem_write_u16(mem, addr, data) ==
    LET hi == data \div 256
        lo == data % 256
        w1 == mem_write(mem, addr, lo)
    IN  IF ~w1.ok THEN w1 ELSE mem_write(w1.v, addr + 1, hi)

\* ------------------------------------------------------------ status flags

\* self.status |= F
FlagsInsert(status, f) == BitOr(status, f)

\* !F of bitflags: the complement truncated to the declared flags
FlagsNot(f) == BitAnd(Not8(f), FlagsAll)

\* self.status &= !F
FlagsRemove(status, f) == BitAnd(status, FlagsNot(f))

FlagSet(status, f) == BitAnd(status, f) # 0

\* Mutant: a zero result also sets Carry (as a compare would).
update_zero_flag_with_carry(status, result) ==
    IF result = 0
    THEN FlagsInsert(FlagsInsert(status, Zero), Carry)
    ELSE FlagsRemove(status, Zero)

update_zero_flag(status, result) ==
    IF result = 0 THEN FlagsInsert(status, Zero) ELSE FlagsRemove(status, Zero)

\* Mutant: the sign taken from bit 6 instead of bit 7.
update_negative_flag_bit6(status, result) ==
    IF BitAnd(result, 64) # 0
    THEN FlagsInsert(status, Negative)
    ELSE FlagsRemove(status, Negative)

\* Mutant: Negative is set by a negative result and never cleared.
update_negative_flag_sticky(status, result) ==
    IF BitAnd(result, Negative) # 0 THEN FlagsInsert(status, Negative) ELSE status

update_negative_flag(status, result) ==
    IF BitAnd(result, Negative) # 0
    THEN FlagsInsert(status, Negative)
    ELSE FlagsRemove(status, Negative)

update_zero_and_negative_flags(status, result) ==
    update_negative_flag(update_zero_flag(status, result), result)

get_carry_flag(status) == BitAnd(status, Carry)

get_zero_flag(status) == BitAnd(status, Zero) \div 2

get_overflow_flag(status) == BitAnd(status, Overflow) \div 64

get_negative_flag(status) == BitAnd(status, Negative) \div 128

update_overflow_flag(status, value) ==
    IF value # 0 THEN FlagsInsert(status, Overflow) ELSE FlagsRemove(status, Overflow)

update_carry_flag(status, value) ==
    IF value # 0 THEN FlagsInsert(status, Carry) ELSE FlagsRemove(status, Carry)

\* ------------------------------------------------------------ opcode table

\* instructions.rs:34-175  CPU_INSTRUCTIONS, row by row:
\* <<opcode, mnemonic, bytes, cycles, addressing mode>>
CPU_INSTRUCTIONS == <<
    <<169, "LDA", 2, 2, "Immediate">>,
    <<165, "LDA", 2, 3, "ZeroPage">>,
    <<181, "LDA", 2, 4, "ZeroPageX">>,
    <<173, "LDA", 3, 4, "Absolute">>,
    <<189, "LDA", 3, 4, "AbsoluteX">>,
    <<185, "LDA", 3, 4, "AbsoluteY">>,
    <<161, "LDA", 2, 6, "IndirectX">>,
    <<177, "LDA", 2, 5, "IndirectY">>,
    <<133, "STA", 2, 3, "ZeroPage">>,
    <<149, "STA", 2, 4, "ZeroPageX">>,
    <<141, "STA", 3, 4, "Absolute">>,
    <<157, "STA", 3, 5, "AbsoluteX">>,
    <<153, "STA", 3, 5, "AbsoluteY">>,
    <<129, "STA", 2, 6, "IndirectX">>,
    <<145, "STA", 2, 6, "IndirectY">>,
    <<162, "LDX", 2, 2, "Immediate">>,
    <<166, "LDX", 2, 3, "ZeroPage">>,
    <<182, "LDX", 2, 4, "ZeroPageY">>,
    <<174, "LDX", 3, 4, "Absolute">>,
    <<190, "LDX", 3, 4, "AbsoluteY">>,
    <<134, "STX", 2, 3, "ZeroPage">>,
    <<150, "STX", 2, 4, "ZeroPageY">>,
    <<142, "STX", 3, 4, "Absolute">>,
    <<160, "LDY", 2, 2, "Immediate">>,
    <<164, "LDY", 2, 3, "ZeroPage">>,
    <<180, "LDY", 2, 4, "ZeroPageX">>,
    <<172, "LDY", 3, 4, "Absolute">>,
    <<188, "LDY", 3, 4, "AbsoluteX">>,
    <<132, "STY", 2, 3, "ZeroPage">>,
    <<148, "STY", 2, 4, "ZeroPageX">>,
    <<140, "STY", 3, 4, "Absolute">>,
    <<170, "TAX", 1, 2, "Implicit">>,
    <<138, "TXA", 1, 2, "Implicit">>,
    <<168, "TAY", 1, 2, "Implicit">>,
    <<152, "TYA", 1, 2, "Implicit">>,
    <<105, "ADC", 2, 2, "Immediate">>,
    <<101, "ADC", 2, 3, "ZeroPage">>,
    <<117, "ADC", 2, 4, "ZeroPageX">>,
    <<109, "ADC", 3, 4, "Absolute">>,
    <<125, "ADC", 3, 4, "AbsoluteX">>,
    <<121, "ADC", 3, 4, "AbsoluteY">>,
    <<97, "ADC", 2, 6, "IndirectX">>,
    <<113, "ADC", 2, 5, "IndirectY">>,
    <<233, "SBC", 2, 2, "Immediate">>,
    <<229, "SBC", 2, 3, "ZeroPage">>,
    <<245, "SBC", 2, 4, "ZeroPageX">>,
    <<237, "SBC", 3, 4, "Absolute">>,
    <<253, "SBC", 3, 4, "AbsoluteX">>,
    <<249, "SBC", 3, 4, "AbsoluteY">>,
    <<225, "SBC", 2, 6, "IndirectX">>,
    <<241, "SBC", 2, 5, "IndirectY">>,
    <<230, "INC", 2, 5, "ZeroPage">>,
    <<246, "INC", 2, 6, "ZeroPageX">>,
    <<238, "INC", 3, 6, "Absolute">>,
    <<254, "INC", 3, 7, "AbsoluteX">>,
    <<198, "DEC", 2, 5, "ZeroPage">>,
    <<214, "DEC", 2, 6, "ZeroPageX">>,
    <<206, "DEC", 3, 6, "Absolute">>,
    <<222, "DEC", 3, 7, "AbsoluteX">>,
    <<202, "DEX", 1, 2, "Implicit">>,
    <<232, "INX", 1, 2, "Implicit">>,
    <<200, "INY", 1, 2, "Implicit">>,
    <<136, "DEY", 1, 2, "Implicit">>,
    <<10, "ASL", 1, 2, "Accumulator">>,
    <<6, "ASL", 2, 5, "ZeroPage">>,
    <<22, "ASL", 2, 6, "ZeroPageX">>,
    <<14, "ASL", 3, 6, "Absolute">>,
    <<30, "ASL", 3, 7, "AbsoluteX">>,
    <<74, "LSR", 1, 2, "Accumulator">>,
    <<70, "LSR", 2, 5, "ZeroPage">>,
    <<86, "LSR", 2, 6, "ZeroPageX">>,
    <<78, "LSR", 3, 6, "Absolute">>,
    <<94, "LSR", 3, 7, "AbsoluteX">>,
    <<42, "ROL", 1, 2, "Accumulator">>,
    <<38, "ROL", 2, 5, "ZeroPage">>,
    <<54, "ROL", 2, 6, "ZeroPageX">>,
    <<46, "ROL", 3, 6, "Absolute">>,
    <<62, "ROL", 3, 7, "AbsoluteX">>,
    <<106, "ROR", 1, 2, "Accumulator">>,
    <<102, "ROR", 2, 5, "ZeroPage">>,
    <<118, "ROR", 2, 6, "ZeroPageX">>,
    <<110, "ROR", 3, 6, "Absolute">>,
    <<126, "ROR", 3, 7, "AbsoluteX">>,
    <<41, "AND", 2, 2, "Immediate">>,
    <<37, "AND", 2, 3, "ZeroPage">>,
    <<53, "AND", 2, 4, "ZeroPageX">>,
    <<45, "AND", 3, 4, "Absolute">>,
    <<61, "AND", 3, 4, "AbsoluteX">>,
    <<57, "AND", 3, 4, "AbsoluteY">>,
    <<33, "AND", 2, 6, "IndirectX">>,
    <<49, "AND", 2, 5, "IndirectY">>,
    <<9, "ORA", 2, 2, "Immediate">>,
    <<5, "ORA", 2, 3, "ZeroPage">>,
    <<21, "ORA", 2, 4, "ZeroPageX">>,
    <<13, "ORA", 3, 4, "Absolute">>,
    <<29, "ORA", 3, 4, "AbsoluteX">>,
    <<25, "ORA", 3, 4, "AbsoluteY">>,
    <<1, "ORA", 2, 6, "IndirectX">>,
    <<17, "ORA", 2, 5, "IndirectY">>,
    <<73, "EOR", 2, 2, "Immediate">>,
    <<69, "EOR", 2, 3, "ZeroPage">>,
    <<85, "EOR", 2, 4, "ZeroPageX">>,
    <<77, "EOR", 3, 4, "Absolute">>,
    <<93, "EOR", 3, 4, "AbsoluteX">>,
    <<89, "EOR", 3, 4, "AbsoluteY">>,
    <<65, "EOR", 2, 6, "IndirectX">>,
    <<81, "EOR", 2, 5, "IndirectY">>,
    <<0, "BRK", 1, 7, "Implicit">>
>>

\* Mutant: the cycle count taken for the byte length.
Descriptor_cycles_as_bytes(row) ==
    [opcode |-> row[1], mnemonic |-> row[2], bytes |-> row[4], cycles |-> row[3],
     addressing_mode |-> row[5]]

Descriptor(row) ==
    [opcode |-> row[1], mnemonic |-> row[2], bytes |-> row[3], cycles |-> row[4],
     addressing_mode |-> row[5]]

TableOpcodes == {CPU_INSTRUCTIONS[i][1] : i \in DOMAIN CPU_INSTRUCTIONS}

\* instructions.rs:177-183  the HashMap built by inserting the rows in order:
\* a later row with the same opcode replaces an earlier one.
INSTRUCTION_MAP ==
    [op \in TableOpcodes |->
        LET last == CHOOSE i \in DOMAIN CPU_INSTRUCTIONS :
                        /\ CPU_INSTRUCTIONS[i][1] = op
                        /\ \A j \in DOMAIN CPU_INSTRUCTIONS :
                              CPU_INSTRUCTIONS[j][1] = op => j <= i
        IN  Descriptor(CPU_INSTRUCTIONS[last])]

\* ------------------------------------------------------------ state

VARIABLES
    a, x, y,        \* Cpu.a, Cpu.x, Cpu.y
    status,         \* Cpu.status, the bits of the StatusFlags value
    sp,             \* Cpu.sp
    pc,             \* Cpu.pc
    memory,         \* Cpu.memory, sparsely
    phase,          \* "idle" (no call in progress), "running" (inside run's loop),
                    \* "halted" (run has returned), "failed" (a call panicked)
    fault,          \* what the panic carried; NoFault while none happened
    opcode,         \* run's local `opcode`: the byte last fetched (-1: none yet)
    fetched_at,     \* the address that byte was fetched from (-1: none yet)
    steps,          \* loop iterations begun by the current call of run
    hist,           \* the last three lifecycle calls, oldest first
    prog,           \* the argument of the last load
    calls           \* lifecycle calls made so far

vars == <<a, x, y, status, sp, pc, memory, phase, fault, opcode, fetched_at,
          steps, hist, prog, calls>>

\* ------------------------------------------------------------ programs

\* A Vec<u8> given as a tuple of bytes
Prog(bytes) ==
    [len |-> Len(bytes),
     at  |-> [i \in {j \in 0..(Len(bytes) - 1) : bytes[j + 1] # 0} |-> bytes[i + 1]]]

\* The same bytes followed by zeros up to length n
Padded(bytes, n) == [Prog(bytes) EXCEPT !.len = n]

ProgAt(p, i) == IF i \in DOMAIN p.at THEN p.at[i] ELSE 0

\* Mutant: the array is not cleared; its first byte holds 1.
EmptyMemory_dirty == (0 :> 1)

EmptyMemory == [k \in {} |-> 0]

\* The programs handed to load: the repository's test programs and the edge
\* cases of the memory map.
Programs ==
    { Prog(<<169, 5, 0>>),                  \* LDA #$05; BRK
      Prog(<<169, 0, 0>>),                  \* LDA #$00; BRK
      Prog(<<169, 255, 105, 1, 0>>),        \* LDA #$FF; ADC #$01; BRK
      Prog(<<169, 80, 105, 80, 0>>),        \* LDA #$50; ADC #$50; BRK
      Prog(<<169, 255, 170, 232, 232, 0>>), \* LDA #$FF; TAX; INX; INX; BRK
      Prog(<<162, 255, 134, 16, 0>>),       \* LDX #$FF; STX $10; BRK
      Prog(<<165, 16, 0>>),                 \* LDA $10; BRK
      Prog(<<73, 1, 0>>),                   \* EOR #$01; BRK
      Prog(<<2>>),                          \* a byte with no descriptor
      Prog(<<173, 255, 255, 0>>),           \* LDA $FFFF; BRK
      Prog(<<>>),
      Padded(<<169, 5, 0>>, 32764),         \* ends right below the reset vector
      Padded(<<169, 5, 0>>, 32766),         \* covers the reset vector
      Padded(<<169, 5, 0>>, 32767),         \* fills the array to its last index
      Padded(<<169, 5, 0>>, 32768) }        \* reaches address 0xFFFF

\* The bytes the tests poke with cpu.mem_write before load_and_run
Pokes == { <<16, 85>>, <<16, 255>> }

\* ------------------------------------------------------------ addressing modes

\* cpu.rs:93  self.pc += 1: inside a handler self.pc is one past the opcode, the
\* address of the first operand byte.
pc_after_fetch == pc + 1

\* cpu.rs:471-524.  The function takes &self: it returns an address and changes
\* nothing.  Relative is used by no table row; its pc + offset is a plain u16
\* addition, which the overflow check of a debug build rejects.
get_address(mode) ==
    CASE mode = "Implicit" -> Panic("todo", -1, -1)
      [] mode = "Accumulator" -> Panic("todo", -1, -1)
      [] mode = "Immediate" -> Ok(pc_after_fetch)
      [] mode = "ZeroPage" -> mem_read(memory, pc_after_fetch)
      [] mode = "ZeroPageX" ->
            LET arg == mem_read(memory, pc_after_fetch)
            IN  IF ~arg.ok THEN arg ELSE Ok(WrappingAdd8(arg.v, x))
      [] mode = "ZeroPageY" ->
            LET arg == mem_read(memory, pc_after_fetch)
            IN  IF ~arg.ok THEN arg ELSE Ok(WrappingAdd8(arg.v, y))
      [] mode = "Absolute" -> mem_read_u16(memory, pc_after_fetch)
      [] mode = "AbsoluteX" ->
            LET arg == mem_read_u16(memory, pc_after_fetch)
            IN  IF ~arg.ok THEN arg ELSE Ok(WrappingAdd16(arg.v, x))
      [] mode = "AbsoluteY" ->
            LET arg == mem_read_u16(memory, pc_after_fetch)
            IN  IF ~arg.ok THEN arg ELSE Ok(WrappingAdd16(arg.v, y))
      [] mode = "Relative" ->
            LET offset == mem_read(memory, pc_after_fetch)
            IN  IF ~offset.ok THEN offset
                ELSE IF pc_after_fetch + offset.v > 65535
                THEN Panic("add_overflow", -1, -1)
                ELSE Ok(pc_after_fetch + offset.v)
      [] mode = "Indirect" -> mem_read_u16(memory, pc_after_fetch)
      [] mode = "IndirectX" ->
            LET arg == mem_read(memory, pc_after_fetch)
            IN  IF ~arg.ok THEN arg
                ELSE LET addr == WrappingAdd8(arg.v, x)
                     IN  Ok(MemGet(memory, WrappingAdd8(addr, 1)) * 256
                            + MemGet(memory, addr))
      [] mode = "IndirectY" ->
            LET arg == mem_read(memory, pc_after_fetch)
            IN  IF ~arg.ok THEN arg
                ELSE LET deref == MemGet(memory, WrappingAdd8(arg.v, 1)) * 256
                                  + MemGet(memory, arg.v)
                     IN  Ok(WrappingAdd16(deref, y))

\* The pair every reading handler starts with:
\*   let addr = self.get_address(mode); let value = self.mem_read(addr);
Operand(mode) ==
    LET addr == get_address(mode)
    IN  IF ~addr.ok THEN addr
        ELSE IF addr.v >= MemoryLen THEN Panic("index_out_of_bounds", -1, addr.v)
        ELSE Ok([addr |-> addr.v, value |-> MemGet(memory, addr.v)])

\* ------------------------------------------------------------ lifecycle

Remember(call) ==
    /\ hist' = <<hist[2], hist[3], call>>
    /\ calls' = calls + 1

Callable == phase \in {"idle", "halted"} /\ calls < MaxCalls

\* cpu.rs:54-65  Cpu::new()
Init ==
    /\ a = 0 /\ x = 0 /\ y = 0
    /\ status = DefaultStatus
    /\ sp = 0
    /\ pc = 0
    /\ memory = EmptyMemory
    /\ phase = "idle"
    /\ fault = NoFault
    /\ opcode = -1
    /\ fetched_at = -1
    /\ steps = 0
    /\ hist = <<"new", "new", "new">>
    /\ prog = Prog(<<>>)
    /\ calls = 0

\* Mutant: the image replaces the whole array, all other bytes zeroed.
CopyFromSlice_fresh(mem, start, p) ==
    [k \in {start + i : i \in DOMAIN p.at} |-> p.at[k - start]]

\* Mutant: the copy leaves the bytes of the range it does not set non-zero.
CopyFromSlice_keep_old(mem, start, p) ==
    [k \in DOMAIN mem \cup {start + i : i \in DOMAIN p.at} |->
        IF k - start \in DOMAIN p.at THEN p.at[k - start] ELSE mem[k]]

\* self.memory[start .. start + program.len()].copy_from_slice(&program), once the
\* range is known to lie inside the array
CopyFromSlice(mem, start, p) ==
    LET InRange(k) == start <= k /\ k < start + p.len
        kept == {k \in DOMAIN mem : ~InRange(k)}
    IN  [k \in kept \cup {start + i : i \in DOMAIN p.at} |->
            IF InRange(k) THEN p.at[k - start] ELSE mem[k]]

\* cpu.rs:73-77  load: the slice range is checked before any byte is copied, so a
\* program that does not fit panics with memory untouched.
LoadResult(mem, p) ==
    IF PROGRAM_START_ADDRESS + p.len > MemoryLen
    THEN Panic("slice_index", -1, PROGRAM_START_ADDRESS + p.len)
    ELSE mem_write_u16(CopyFromSlice(mem, PROGRAM_START_ADDRESS, p),
                       PROGRAM_COUNTER_RESET_ADDRESS, PROGRAM_START_ADDRESS)

Load(p) ==
    /\ Callable
    /\ LET r == LoadResult(memory, p)
       IN  /\ memory' = IF r.ok THEN r.v ELSE memory
           /\ phase' = IF r.ok THEN "idle" ELSE "failed"
           /\ fault' = IF r.ok THEN fault ELSE FaultOf(r)
    /\ prog' = p
    /\ Remember("load")
    /\ UNCHANGED <<a, x, y, status, sp, pc, opcode, fetched_at, steps>>

\* Mutant: reset leaves the status register as it is.
ResetStatus_keep(s) == s

\* cpu.rs:83  self.status |= StatusFlags::from_bits_retain(0b0010_0100)
ResetStatus(s) == FlagsInsert(s, DefaultStatus)

\* Mutant: reset leaves A, X and Y as they are.
Reset_keep_registers ==
    /\ Callable
    /\ status' = ResetStatus(status)
    /\ pc' = mem_read_u16(memory, PROGRAM_COUNTER_RESET_ADDRESS).v
    /\ phase' = "idle"
    /\ Remember("reset")
    /\ UNCHANGED <<a, x, y, sp, memory, fault, opcode, fetched_at, steps, prog>>

\* cpu.rs:79-88  reset.  Reading the vector at 0xFFFC/0xFFFD is always in bounds.
Reset ==
    /\ Callable
    /\ a' = 0 /\ x' = 0 /\ y' = 0
    /\ status' = ResetStatus(status)
    /\ pc' = mem_read_u16(memory, PROGRAM_COUNTER_RESET_ADDRESS).v
    /\ phase' = "idle"
    /\ Remember("reset")
    /\ UNCHANGED <<sp, memory, fault, opcode, fetched_at, steps, prog>>

\* cpu.rs:90  the call of run: control enters the loop.
Run ==
    /\ Callable
    /\ phase' = "running"
    /\ steps' = 0
    /\ Remember("run")
    /\ UNCHANGED <<a, x, y, status, sp, pc, memory, fault, opcode, fetched_at, prog>>

\* cpu.rs:556 and the like: a test writes a byte with cpu.mem_write before it
\* loads the program.
Poke(addr, data) ==
    /\ Callable
    /\ memory' = mem_write(memory, addr, data).v
    /\ phase' = "idle"
    /\ Remember("mem_write")
    /\ UNCHANGED <<a, x, y, status, sp, pc, fault, opcode, fetched_at, steps, prog>>

\* ------------------------------------------------------------ instruction handlers
\* Each handler is the part of a Step that the method of that name performs on
\* a, x, y, status and memory.  It ends in Continue (the method returned) or in
\* Panicked (a panic was raised inside it, before it had changed anything).

Continue ==
    /\ phase' = "running"
    /\ fault' = fault

Panicked(r) ==
    /\ phase' = "failed"
    /\ fault' = FaultOf(r)
    /\ UNCHANGED <<a, x, y, status, memory>>

\* Mutant: the accumulator is loaded and the flags are left as they were.
lda_keep_flags(mode) ==
    \E o \in {Operand(mode)} :
        IF ~o.ok THEN Panicked(o)
        ELSE /\ a' = o.v.value
             /\ UNCHANGED <<x, y, status, memory>>
             /\ Continue

lda(mode) ==
    \E o \in {Operand(mode)} :
        IF ~o.ok THEN Panicked(o)
        ELSE /\ a' = o.v.value
             /\ status' = update_zero_and_negative_flags(status, o.v.value)
             /\ UNCHANGED <<x, y, memory>>
             /\ Continue

ldx(mode) ==
    \E o \in {Operand(mode)} :
        IF ~o.ok THEN Panicked(o)
        ELSE /\ x' = o.v.value
             /\ status' = update_zero_and_negative_flags(status, o.v.value)
             /\ UNCHANGED <<a, y, memory>>
             /\ Continue

ldy(mode) ==
    \E o \in {Operand(mode)} :
        IF ~o.ok THEN Panicked(o)
        ELSE /\ y' = o.v.value
             /\ status' = update_zero_and_negative_flags(status, o.v.value)
             /\ UNCHANGED <<a, x, memory>>
             /\ Continue

\* Mutant: the store also updates Zero and Negative from the byte it wrote.
StoreRegister_with_flags(mode, register) ==
    \E addr \in {get_address(mode)} :
        IF ~addr.ok THEN Panicked(addr)
        ELSE \E w \in {mem_write(memory, addr.v, register)} :
                IF ~w.ok THEN Panicked(w)
                ELSE /\ memory' = w.v
                     /\ status' = update_zero_and_negative_flags(status, register)
                     /\ UNCHANGED <<a, x, y>>
                     /\ Continue

\* The body shared by sta, stx and sty: self.mem_write(addr, register)
StoreRegister(mode, register) ==
    \E addr \in {get_address(mode)} :
        IF ~addr.ok THEN Panicked(addr)
        ELSE \E w \in {mem_write(memory, addr.v, register)} :
                IF ~w.ok THEN Panicked(w)
                ELSE /\ memory' = w.v
                     /\ UNCHANGED <<a, x, y, status>>
                     /\ Continue

sta(mode) == StoreRegister(mode, a)

stx(mode) == StoreRegister(mode, x)

sty(mode) == StoreRegister(mode, y)

tax ==
    /\ x' = a
    /\ status' = update_zero_and_negative_flags(status, a)
    /\ UNCHANGED <<a, y, memory>>
    /\ Continue

txa ==
    /\ a' = x
    /\ status' = update_zero_and_negative_flags(status, x)
    /\ UNCHANGED <<x, y, memory>>
    /\ Continue

tay ==
    /\ y' = a
    /\ status' = update_zero_and_negative_flags(status, a)
    /\ UNCHANGED <<a, x, memory>>
    /\ Continue

tya ==
    /\ a' = y
    /\ status' = update_zero_and_negative_flags(status, y)
    /\ UNCHANGED <<x, y, memory>>
    /\ Continue

\* Mutant: the carry out of adding the carry flag is dropped.
AddWithCarry_first_only(acc, value, carry) ==
    <<(acc + value + carry) % 256, acc + value > 255>>

\* cpu.rs:380-384  the two overflowing_add calls: <<result, overflow>>
AddWithCarry(acc, value, carry) ==
    LET sum1 == acc + value
        sum2 == (sum1 % 256) + carry
    IN  <<sum2 % 256, sum1 > 255 \/ sum2 > 255>>

\* cpu.rs:386  (result ^ self.a) & (result ^ value) & 0x80, against the accumulator
\* before it is replaced
OverflowBits(result, acc, value) ==
    BitAnd(BitAnd(BitXor(result, acc), BitXor(result, value)), 128)

\* cpu.rs:379-393
add_to_accumulator(value) ==
    \E r \in {AddWithCarry(a, value, get_carry_flag(status))} :
        /\ a' = r[1]
        /\ status' = update_zero_and_negative_flags(
                        update_carry_flag(
                            update_overflow_flag(status, OverflowBits(r[1], a, value)),
                            IF r[2] THEN 1 ELSE 0),
                        r[1])
        /\ UNCHANGED <<x, y, memory>>
        /\ Continue

adc(mode) ==
    \E o \in {Operand(mode)} :
        IF ~o.ok THEN Panicked(o) ELSE add_to_accumulator(o.v.value)

\* Mutant: the operand negated (two's complement) instead of complemented.
sbc_twos_complement(mode) ==
    \E o \in {Operand(mode)} :
        IF ~o.ok THEN Panicked(o)
        ELSE add_to_accumulator(WrappingSub8(0, o.v.value))

sbc(mode) ==
    \E o \in {Operand(mode)} :
        IF ~o.ok THEN Panicked(o) ELSE add_to_accumulator(Not8(o.v.value))

\* The tail shared by inc, dec and the memory forms of the shifts: write result
\* back to addr, then update the flags.  The write cannot fail: the read of the
\* same address just before it succeeded.
WriteBack(addr, result, new_status) ==
    /\ memory' = MemPut(memory, addr, result)
    /\ status' = new_status
    /\ UNCHANGED <<a, x, y>>
    /\ Continue

inc(mode) ==
    \E o \in {Operand(mode)} :
        IF ~o.ok THEN Panicked(o)
        ELSE \E result \in {WrappingAdd8(o.v.value, 1)} :
                WriteBack(o.v.addr, result,
                          update_zero_and_negative_flags(status, result))

dec(mode) ==
    \E o \in {Operand(mode)} :
        IF ~o.ok THEN Panicked(o)
        ELSE \E result \in {WrappingSub8(o.v.value, 1)} :
                WriteBack(o.v.addr, result,
                          update_zero_and_negative_flags(status, result))

dex ==
    /\ x' = WrappingSub8(x, 1)
    /\ status' = update_zero_and_negative_flags(status, x')
    /\ UNCHANGED <<a, y, memory>>
    /\ Continue

inx ==
    /\ x' = WrappingAdd8(x, 1)
    /\ status' = update_zero_and_negative_flags(status, x')
    /\ UNCHANGED <<a, y, memory>>
    /\ Continue

iny ==
    /\ y' = WrappingAdd8(y, 1)
    /\ status' = update_zero_and_negative_flags(status, y')
    /\ UNCHANGED <<a, x, memory>>
    /\ Continue

dey ==
    /\ y' = WrappingSub8(y, 1)
    /\ status' = update_zero_and_negative_flags(status, y')
    /\ UNCHANGED <<a, x, memory>>
    /\ Continue

\* What a shift or rotate computes from its operand and the carry flag on entry:
\* <<result, carry_flag_value>>.
\* Mutant: the shift takes the carry flag into the vacated bit.
asl_value_rotating(v) ==
    <<BitOr(Shl8(v), get_carry_flag(status)), BitAnd(v, 128) \div 128>>

asl_value(v) == <<Shl8(v), BitAnd(v, 128) \div 128>>

lsr_value(v) == <<Shr8(v), BitAnd(v, 1)>>

\* Mutant: the carry flag on entry is not shifted in.
rol_value_no_carry_in(v, carry_flag_initial) ==
    <<Shl8(v), BitAnd(v, 128) \div 128>>

\* Mutant: bit 7 of the operand goes round into bit 0 (an 8-bit rotate).
rol_value_circular(v, carry_flag_initial) ==
    <<BitOr(Shl8(v), BitAnd(v, 128) \div 128), BitAnd(v, 128) \div 128>>

rol_value(v, carry_flag_initial) ==
    <<BitOr(Shl8(v), carry_flag_initial), BitAnd(v, 128) \div 128>>

\* Mutant: the bit shifted in is the carry the rotate itself produces.
ror_value_new_carry(v, carry_flag_initial) ==
    <<BitOr(Shr8(v), BitAnd(v, 1) * 128), BitAnd(v, 1)>>

ror_value(v, carry_flag_initial) ==
    <<BitOr(Shr8(v), carry_flag_initial * 128), BitAnd(v, 1)>>

\* update_carry_flag(carry_flag_value), then update_zero_and_negative_flags(result)
ShiftStatus(r) ==
    update_zero_and_negative_flags(update_carry_flag(status, r[2]), r[1])

\* The Accumulator branch of asl, lsr, rol and ror
ShiftAccumulator(r) ==
    /\ a' = r[1]
    /\ status' = ShiftStatus(r)
    /\ UNCHANGED <<x, y, memory>>
    /\ Continue

\* Mutant: no Accumulator branch; the address is resolved in every mode.
asl_memory_only(mode) ==
    \E o \in {Operand(mode)} :
        IF ~o.ok THEN Panicked(o)
        ELSE \E r \in {asl_value(o.v.value)} :
                WriteBack(o.v.addr, r[1], ShiftStatus(r))

asl(mode) ==
    IF mode = "Accumulator"
    THEN \E r \in {asl_value(a)} : ShiftAccumulator(r)
    ELSE \E o \in {Operand(mode)} :
            IF ~o.ok THEN Panicked(o)
            ELSE \E r \in {asl_value(o.v.value)} :
                    WriteBack(o.v.addr, r[1], ShiftStatus(r))

lsr(mode) ==
    IF mode = "Accumulator"
    THEN \E r \in {lsr_value(a)} : ShiftAccumulator(r)
    ELSE \E o \in {Operand(mode)} :
            IF ~o.ok THEN Panicked(o)
            ELSE \E r \in {lsr_value(o.v.value)} :
                    WriteBack(o.v.addr, r[1], ShiftStatus(r))

rol(mode) ==
    IF mode = "Accumulator"
    THEN \E r \in {rol_value(a, get_carry_flag(status))} : ShiftAccumulator(r)
    ELSE \E o \in {Operand(mode)} :
            IF ~o.ok THEN Panicked(o)
            ELSE \E r \in {rol_value(o.v.value, get_carry_flag(status))} :
                    WriteBack(o.v.addr, r[1], ShiftStatus(r))

ror(mode) ==
    IF mode = "Accumulator"
    THEN \E r \in {ror_value(a, get_carry_flag(status))} : ShiftAccumulator(r)
    ELSE \E o \in {Operand(mode)} :
            IF ~o.ok THEN Panicked(o)
            ELSE \E r \in {ror_value(o.v.value, get_carry_flag(status))} :
                    WriteBack(o.v.addr, r[1], ShiftStatus(r))

and(mode) ==
    \E o \in {Operand(mode)} :
        IF ~o.ok THEN Panicked(o)
        ELSE /\ a' = BitAnd(a, o.v.value)
             /\ status' = update_zero_and_negative_flags(status, a')
             /\ UNCHANGED <<x, y, memory>>
             /\ Continue

ora(mode) ==
    \E o \in {Operand(mode)} :
        IF ~o.ok THEN Panicked(o)
        ELSE /\ a' = BitOr(a, o.v.value)
             /\ status' = update_zero_and_negative_flags(status, a')
             /\ UNCHANGED <<x, y, memory>>
             /\ Continue

\* Mutant: 0x00 treated as an instruction that does nothing.
brk_continue ==
    /\ Continue
    /\ UNCHANGED <<a, x, y, status, memory>>

\* cpu.rs:145  0x00 => return
brk ==
    /\ phase' = "halted"
    /\ fault' = fault
    /\ UNCHANGED <<a, x, y, status, memory>>

\* cpu.rs:146  panic!("opcode '{:X}' not recognised", opcode)
not_recognised(op) == Panicked(Panic("not_recognised", op, -1))

\* cpu.rs:97-147  the match on the raw opcode byte: each arm is the set of bytes
\* it lists and the call it makes.
Dispatch(op, mode) ==
    CASE op \in {169, 165, 181, 173, 189, 185, 161, 177} -> lda(mode)
      [] op \in {133, 149, 141, 157, 153, 129, 145} -> sta(mode)
      [] op \in {162, 166, 182, 174, 190} -> ldx(mode)
      [] op \in {134, 150, 142} -> stx(mode)
      [] op \in {160, 164, 180, 172, 188} -> ldy(mode)
      [] op \in {132, 148, 140} -> sty(mode)
      [] op \in {170} -> tax
      [] op \in {138} -> txa
      [] op \in {168} -> tay
      [] op \in {152} -> tya
      [] op \in {105, 101, 117, 109, 125, 121, 97, 113} -> adc(mode)
      [] op \in {233, 229, 245, 237, 253, 249, 225, 241} -> sbc(mode)
      [] op \in {230, 246, 238, 254} -> inc(mode)
      [] op \in {198, 214, 206, 222} -> dec(mode)
      [] op \in {202} -> dex
      [] op \in {232} -> inx
      [] op \in {200} -> iny
      [] op \in {136} -> dey
      [] op \in {10, 6, 22, 14, 30} -> asl(mode)
      [] op \in {74, 70, 86, 78, 94} -> lsr(mode)
      [] op \in {42, 38, 54, 46, 62} -> rol(mode)
      [] op \in {106, 102, 118, 110, 126} -> ror(mode)
      [] op \in {41, 37, 53, 45, 61, 57, 33, 49} -> and(mode)
      [] op \in {9, 5, 21, 13, 29, 25, 1, 17} -> ora(mode)
      [] op \in {0} -> brk
      [] OTHER -> not_recognised(op)

\* The bytes some arm of the match lists
Dispatched ==
    {169, 165, 181, 173, 189, 185, 161, 177, 133, 149, 141, 157, 153, 129, 145,
     162, 166, 182, 174, 190, 134, 150, 142, 160, 164, 180, 172, 188, 132, 148,
     140, 170, 138, 168, 152, 105, 101, 117, 109, 125, 121, 97, 113, 233, 229,
     245, 237, 253, 249, 225, 241, 230, 246, 238, 254, 198, 214, 206, 222, 202,
     232, 200, 136, 10, 6, 22, 14, 30, 74, 70, 86, 78, 94, 42, 38, 54, 46, 62,
     106, 102, 118, 110, 126, 41, 37, 53, 45, 61, 57, 33, 49, 9, 5, 21, 13, 29,
     25, 1, 17, 0}

\* ------------------------------------------------------------ run's loop

\* Mutant: pc advanced by the whole length although the opcode is already passed.
Advance_whole_length(pc1, bytes) == pc1 + bytes

\* Mutant: pc is put back on the opcode it has just executed.
Advance_stay(pc1, bytes) == pc1 - 1

\* cpu.rs:148  self.pc += (instruction.bytes - 1) as u16, from the pc that is
\* already one past the opcode
Advance(pc1, bytes) == pc1 + (bytes - 1)

\* cpu.rs:95  INSTRUCTION_MAP.get(&opcode).unwrap(): the panic of unwrap on None
\* carries neither the byte nor the address.
Lookup(op) ==
    IF op \in DOMAIN INSTRUCTION_MAP THEN Ok(INSTRUCTION_MAP[op])
    ELSE Panic("unwrap_none", -1, -1)

\* cpu.rs:91-149  one iteration of run's loop: fetch, look up, dispatch, advance.
\* A handler that panics leaves pc one past the opcode; so does the return at
\* 0x00.  A fetch from an index outside the array panics before pc moves.
Step ==
    /\ phase = "running"
    /\ steps' = steps + 1
    /\ UNCHANGED <<sp, hist, prog, calls>>
    /\ \E f \in {mem_read(memory, pc)} :
        IF ~f.ok
        THEN /\ Panicked(f)
             /\ UNCHANGED <<pc, opcode, fetched_at>>
        ELSE /\ opcode' = f.v
             /\ fetched_at' = pc
             /\ \E instruction \in {Lookup(f.v)} :
                 IF ~instruction.ok
                 THEN /\ Panicked(instruction)
                      /\ pc' = pc_after_fetch
                 ELSE /\ Dispatch(f.v, instruction.v.addressing_mode)
                      /\ pc' = IF phase' = "running"
                               THEN Advance(pc_after_fetch, instruction.v.bytes)
                               ELSE pc_after_fetch

Next ==
    \/ \E p \in Programs : Load(p)
    \/ Reset
    \/ Run
    \/ \E w \in Pokes : Poke(w[1], w[2])
    \/ Step

Spec == Init /\ [][Next]_vars

\* ------------------------------------------------------------ inside run's loop
\* Specifications that start inside run's loop, at the fetch of one instruction,
\* with the registers and flags as earlier instructions can have left them, and
\* take Steps from there.

\* The state at the top of the loop with pc at the program origin: image loaded
\* over the data bytes, the registers ra, rx, ry and the status rs.
InLoop(image, data, ra, rx, ry, rs) ==
    /\ a = ra /\ x = rx /\ y = ry
    /\ status = rs
    /\ sp = 0
    /\ pc = PROGRAM_START_ADDRESS
    /\ memory = LoadResult(data, Prog(image)).v
    /\ phase = "running"
    /\ fault = NoFault
    /\ opcode = -1
    /\ fetched_at = -1
    /\ steps = 0
    /\ hist = <<"load", "reset", "run">>
    /\ prog = Prog(image)
    /\ calls = 3

\* The status values instructions can produce: InterruptDisable stays set, bit 5
\* is set by new/reset and dropped by the first flag removal, Carry and Overflow
\* are free, Zero and Negative come from one byte.
StatusValues ==
    { InterruptDisable + b5 + c + v + zn :
        b5 \in {0, 32}, c \in {0, Carry}, v \in {0, Overflow},
        zn \in {0, Zero, Negative} }

\* Zero-page data for the indexed and indirect modes: a pointer to 0x0210 at
\* 0x10/0x11, a pointer to 0xFFFF at 0xFE/0xFF, and a byte at 0x0210.
ZeroPageData == (16 :> 16 @@ 17 :> 2 @@ 254 :> 255 @@ 255 :> 255 @@ 528 :> 129)

\* The operand bytes tried after each opcode
OperandSamples == { <<16, 0>>, <<254, 255>>, <<255, 255>>, <<16, 2>> }

\* Every byte as the opcode, with sample operands and registers.
InitInstr ==
    \E op \in Byte, o \in OperandSamples, ra \in {0, 129}, rx \in {0, 1}, ry \in {0, 1},
       rs \in {DefaultStatus, InterruptDisable + Carry + Overflow + Negative} :
        InLoop(<<op, o[1], o[2], 0>>, ZeroPageData, ra, rx, ry, rs)

\* LDA #v for every byte v, from every status value.
InitLoad ==
    \E v \in Byte, rs \in StatusValues :
        InLoop(<<169, v, 0>>, EmptyMemory, 1, 0, 0, rs)

SpecInstr == (InitInstr \/ InitLoad) /\ [][Step]_vars

\* ADC #m for every accumulator value, operand and carry.
InitAlu ==
    \E ra \in Byte, m \in Byte,
       rs \in {DefaultStatus, DefaultStatus + Carry,
               InterruptDisable + Overflow + Negative,
               InterruptDisable + Carry + Zero + Overflow} :
        InLoop(<<105, m, 0>>, EmptyMemory, ra, 0, 0, rs)

SpecAlu == InitAlu /\ [][Step]_vars


\* The statuses an arithmetic instruction is started from: Carry clear and set,
\* over stale Zero, Overflow and Negative.
AluStatuses ==
    { DefaultStatus, DefaultStatus + Carry,
      InterruptDisable + Overflow + Negative,
      InterruptDisable + Carry + Zero + Overflow }

\* SBC #m for every accumulator value, operand and carry.
InitSbc ==
    \E ra \in Byte, m \in Byte, rs \in AluStatuses :
        InLoop(<<233, m, 0>>, EmptyMemory, ra, 0, 0, rs)

SpecSbc == InitSbc /\ [][Step]_vars

\* ROL A nine times, then BRK (the program of test_0x2a_rol_rotate_to_original_state
\* after its LDA)
RolProgram == <<42, 42, 42, 42, 42, 42, 42, 42, 42, 0>>

\* The rotate program from every accumulator value and carry.  X and Y, which ROL
\* never touches, start as copies of the accumulator and of the carry bit.
InitRol ==
    \E ra \in Byte, rs \in AluStatuses :
        InLoop(RolProgram, EmptyMemory, ra, ra, get_carry_flag(rs), rs)

SpecRol == InitRol /\ [][Step]_vars

\* The opcodes of INC, DEC (memory) and of DEX, INX, INY, DEY (registers)
CountMemoryOpcodes == {230, 246, 238, 254, 198, 214, 206, 222}

CountRegisterOpcodes == {202, 232, 200, 136}

\* The bytes 0x10 and 0x11 both holding v
CountData(v) == IF v = 0 THEN EmptyMemory ELSE (16 :> v @@ 17 :> v)

\* Each increment/decrement opcode on every old value v of its target: v is in X
\* and Y for the register forms and at 0x10/0x11 for the memory forms (operand
\* 0x10 or 0x0010, indexed by X = 0 or 1).
InitCount ==
    \E op \in CountMemoryOpcodes \cup CountRegisterOpcodes, v \in Byte, rx \in {0, 1},
       rs \in {DefaultStatus, InterruptDisable + Carry + Zero + Overflow} :
        InLoop(<<op, 16, 0, 0>>, CountData(v), 0,
               IF op \in CountRegisterOpcodes THEN v ELSE rx, v, rs)

SpecCount == (InitInstr \/ InitCount) /\ [][Step]_vars

\* The immediate and zero-page loads, the zero-page stores and the transfers
MoveImmediateOpcodes == {169, 162, 160}

MoveOpcodes == MoveImmediateOpcodes \cup {165, 166, 164, 133, 134, 132, 170, 138, 168, 152}

\* Each of them on every byte v: v is the immediate operand or the byte at 0x10,
\* and the registers hold three different bytes derived from v, each of which
\* runs over all values.
InitMove ==
    \E op \in MoveOpcodes, v \in Byte,
       rs \in {DefaultStatus, InterruptDisable + Carry + Zero + Overflow} :
        InLoop(<<op, IF op \in MoveImmediateOpcodes THEN v ELSE 16, 0>>,
               CountData(v), (v + 1) % 256, 255 - v, (v + 85) % 256, rs)

SpecMove == (InitInstr \/ InitMove) /\ [][Step]_vars

\* The opcodes of ASL, LSR, ROL and ROR
AslOpcodes == {10, 6, 22, 14, 30}

LsrOpcodes == {74, 70, 86, 78, 94}

RolOpcodes == {42, 38, 54, 46, 62}

RorOpcodes == {106, 102, 118, 110, 126}

\* Each shift and rotate opcode on every operand value v, which is in the
\* accumulator and at 0x10/0x11 (operand 0x10 or 0x0010, indexed by X = 0 or 1),
\* with Carry clear and set.
InitShift ==
    \E op \in AslOpcodes \cup LsrOpcodes \cup RolOpcodes \cup RorOpcodes,
       v \in Byte, rx \in {0, 1}, rs \in AluStatuses :
        InLoop(<<op, 16, 0, 0>>, CountData(v), v, rx, 0, rs)

SpecShift == (InitInstr \/ InitShift) /\ [][Step]_vars

\* ------------------------------------------------------------ load_and_run
\* Programs that read A, X or Y before writing it, so that a register value left
\* from before the call would show in the result.
LeakPrograms ==
    { Prog(<<169, 192, 170, 232, 0>>),  \* LDA #$C0; TAX; INX; BRK
      Prog(<<232, 0>>),                 \* INX; BRK
      Prog(<<200, 0>>),                 \* INY; BRK
      Prog(<<138, 0>>),                 \* TXA; BRK
      Prog(<<152, 0>>),                 \* TYA; BRK
      Prog(<<105, 1, 0>>),              \* ADC #$01; BRK
      Prog(<<133, 16, 0>>),             \* STA $10; BRK
      Prog(<<150, 16, 0>>),             \* STX $10,Y; BRK
      Prog(<<189, 0, 128, 0>>),         \* LDA $8000,X; BRK
      Prog(<<2>>) }                     \* a byte with no descriptor

\* The values A, X and Y hold before the call (the test sets cpu.x = 0xFF)
LeakRegisters == {0, 1, 255}

\* A Cpu as Cpu::new returned it, with A, X and Y then set by the caller.
InitLeak ==
    \E ra \in LeakRegisters, rx \in LeakRegisters, ry \in LeakRegisters :
        /\ a = ra /\ x = rx /\ y = ry
        /\ status = DefaultStatus
        /\ sp = 0
        /\ pc = 0
        /\ memory = EmptyMemory
        /\ phase = "idle"
        /\ fault = NoFault
        /\ opcode = -1
        /\ fetched_at = -1
        /\ steps = 0
        /\ hist = <<"new", "new", "new">>
        /\ prog = Prog(<<>>)
        /\ calls = 0

\* cpu.rs:67-71  load_and_run: load, reset and run, one after the other; a call
\* that panics ends the sequence.
load_and_run ==
    \/ hist[3] = "new" /\ \E p \in LeakPrograms : Load(p)
    \/ hist[3] = "load" /\ Reset
    \/ hist[3] = "reset" /\ Run

SpecLeak == InitLeak /\ [][load_and_run \/ Step]_vars

\* ------------------------------------------------------------ run to the end
\* The first address of the stretch of memory the runs below start in
TopStart == 65516

\* The last bytes of the array filled with the opcode fill from address from on,
\* with LDA absolute at 0xFFFB taking the reset vector as its operand, and the
\* reset vector pointing at start.
TopMemory(fill, from, start) ==
    [k \in from..(MemoryLen - 1) |->
        CASE k = PROGRAM_COUNTER_RESET_ADDRESS - 1 -> 173
          [] k = PROGRAM_COUNTER_RESET_ADDRESS -> start % 256
          [] k = PROGRAM_COUNTER_RESET_ADDRESS + 1 -> start \div 256
          [] OTHER -> fill]

\* run entered after reset has taken pc from a reset vector that points into the
\* last bytes of the array, which hold no halt opcode: one-byte (INX, ASL A),
\* two-byte (LDA #) or three-byte (INC absolute,X) instructions up to the end.
InitTop ==
    \E fill \in {232, 10, 169, 254}, start \in TopStart..(PROGRAM_COUNTER_RESET_ADDRESS - 1),
       ra \in {0, 129}, rx \in {0, 255}, rs \in {DefaultStatus, InterruptDisable + Carry} :
        /\ a = ra /\ x = rx /\ y = 0
        /\ status = rs
        /\ sp = 0
        /\ pc = start
        /\ memory = TopMemory(fill, TopStart, start)
        /\ phase = "running"
        /\ fault = NoFault
        /\ opcode = -1
        /\ fetched_at = -1
        /\ steps = 0
        /\ hist = <<"mem_write", "reset", "run">>
        /\ prog = Prog(<<>>)
        /\ calls = 3

\* run is a loop on the calling thread: an iteration that can be taken is taken.
SpecTerm == InitTop /\ [][Step]_vars /\ WF_vars(Step)

\* ------------------------------------------------------------ indexed modes
\* Bytes at both ends of the zero page, to tell a wrapped address from one that
\* is not
IndexData == (0 :> 66 @@ 255 :> 77)

\* The operand words tried with AbsoluteX / AbsoluteY
IndexWords == {0, 255, 528, 65280, 65534, 65535}

\* LDA zp,X and LDX zp,Y on every operand byte and index value, and LDA abs,X and
\* LDA abs,Y on the sample words and every index value.
InitIndex ==
    \/ \E op \in {181, 182}, operand \in Byte, index \in Byte :
            InLoop(<<op, operand, 0>>, IndexData, 1, index, index, DefaultStatus)
    \/ \E op \in {189, 185}, word \in IndexWords, index \in Byte :
            InLoop(<<op, word % 256, word \div 256, 0>>, IndexData, 1, index, index,
                   DefaultStatus)

SpecIndex == InitIndex /\ [][Step]_vars

\* ------------------------------------------------------------ indirect modes
\* A pointer to 0x0210 at 0x10/0x11 and one at 0xFF/0x00; 0x0100 holds another
\* high byte, to tell a pointer read across the page end; a byte at each target.
IndirectData ==
    (0 :> 2 @@ 16 :> 16 @@ 17 :> 2 @@ 255 :> 16 @@ 256 :> 9 @@ 528 :> 129 @@ 2320 :> 55)

\* LDA (zp,X) and LDA (zp),Y on every operand byte and index value.
InitIndirect ==
    \E op \in {161, 177}, operand \in Byte, index \in Byte :
        InLoop(<<op, operand, 0>>, IndirectData, 1, index, index, DefaultStatus)

SpecIndirect == InitIndirect /\ [][Step]_vars

\* ------------------------------------------------------------ flags
\* Every instruction from the registers, operands and statuses of the
\* specifications above, taken together.
SpecFlags == (InitInstr \/ InitLoad \/ InitMove \/ InitCount \/ InitShift) /\ [][Step]_vars

\* ------------------------------------------------------------ status register
\* Programs in which each family of flag-setting instructions produces a zero
\* result after a negative one, or a negative after a zero.
StatusPrograms ==
    { Prog(<<169, 0, 162, 128, 0>>),                \* LDA #$00; LDX #$80; BRK
      Prog(<<169, 128, 160, 0, 0>>),                \* LDA #$80; LDY #$00; BRK
      Prog(<<169, 255, 105, 1, 233, 1, 0>>),        \* LDA #$FF; ADC #$01; SBC #$01; BRK
      Prog(<<169, 64, 10, 10, 106, 0>>),            \* LDA #$40; ASL A; ASL A; ROR A; BRK
      Prog(<<202, 232, 136, 200, 0>>),              \* DEX; INX; DEY; INY; BRK
      Prog(<<169, 128, 41, 0, 9, 128, 0>>),         \* LDA #$80; AND #$00; ORA #$80; BRK
      Prog(<<198, 16, 230, 16, 0>>),                \* DEC $10; INC $10; BRK
      Prog(<<169, 128, 170, 169, 0, 168, 138, 0>>), \* LDA #$80; TAX; LDA #$00; TAY; TXA; BRK
      Prog(<<133, 16, 0>>),                         \* STA $10; BRK
      Prog(<<2>>) }                                 \* a byte with no descriptor

\* Any sequence of load, reset and run on a Cpu that Cpu::new returned.
NextStatus ==
    \/ \E p \in StatusPrograms : Load(p)
    \/ Reset
    \/ Run
    \/ Step

SpecStatus == Init /\ [][NextStatus]_vars
\* ============================================================ claims

Flag(f) == FlagSet(status, f)

\* ------------------------------------------------------------ C1
\* C1: every opcode that has a descriptor in the opcode table is handled by
\* run's dispatch: fetching it never ends in the 'not recognised' failure.
C1_TableOpcodesHandled ==
    ~(opcode \in TableOpcodes /\ phase = "failed" /\ fault.kind = "not_recognised")

\* ------------------------------------------------------------ C2
\* C2: when run fetches a byte that has no descriptor, it stops with a failure
\* that identifies both the byte and the address it was fetched from, and A, X,
\* Y, the flags and memory are as before the fetch.
C2_UnknownOpcodeReported ==
    (phase = "failed" /\ opcode # -1 /\ opcode \notin TableOpcodes)
        => /\ fault.byte = opcode
           /\ fault.addr = fetched_at

\* ------------------------------------------------------------ C3
\* C3: no instruction, addressing mode, load or reset causes an out-of-range
\* memory access: the only failures are an unrecognised opcode and an
\* unsupported addressing mode.
C3_NoOutOfRangeAccess ==
    fault.kind \in {"none", "unwrap_none", "not_recognised", "todo"}

\* ------------------------------------------------------------ C4
\* C4: after reset, whatever calls came before it, A = X = Y = 0 and the status
\* register equals the default pattern 0b00100100.
C4_ResetGivesDefaults ==
    hist[3] = "reset"
        => /\ a = 0 /\ x = 0 /\ y = 0
           /\ status = DefaultStatus

\* ------------------------------------------------------------ C5
\* The bytes of the array from the origin up to (not including) `limit` equal the
\* last loaded program's.  Addresses outside both sparse domains hold 0 on both
\* sides, so only the addresses in either domain need comparing.
ImageBelow(limit) ==
    \A k \in DOMAIN memory \cup {PROGRAM_START_ADDRESS + i : i \in DOMAIN prog.at} :
        (/\ PROGRAM_START_ADDRESS <= k
         /\ k < PROGRAM_START_ADDRESS + prog.len
         /\ k < limit)
            => MemGet(memory, k) = ProgAt(prog, k - PROGRAM_START_ADDRESS)

VectorHoldsOrigin ==
    /\ MemGet(memory, PROGRAM_COUNTER_RESET_ADDRESS) = PROGRAM_START_ADDRESS % 256
    /\ MemGet(memory, PROGRAM_COUNTER_RESET_ADDRESS + 1) = PROGRAM_START_ADDRESS \div 256

C6_ResetLoadsVector ==
    /\ hist[3] = "reset"
        => pc = MemGet(memory, PROGRAM_COUNTER_RESET_ADDRESS)
                + 256 * MemGet(memory, PROGRAM_COUNTER_RESET_ADDRESS + 1)
    /\ (hist[2] = "load" /\ hist[3] = "reset") => pc = PROGRAM_START_ADDRESS
    /\ (hist = <<"load", "reset", "run">> /\ steps = 0) => pc = PROGRAM_START_ADDRESS
    /\ (hist = <<"load", "reset", "run">> /\ steps = 1 /\ prog.len > 0)
        => /\ fetched_at = PROGRAM_START_ADDRESS
           /\ opcode = ProgAt(prog, 0)

\* A load-reset-run made after two earlier calls on the same Cpu has fetched its
\* first opcode.
C6_Witness ==
    /\ hist = <<"load", "reset", "run">>
    /\ calls = 5
    /\ steps = 1
    /\ opcode = 162
    /\ fetched_at = PROGRAM_START_ADDRESS

\* ------------------------------------------------------------ C7
\* C7: when run fetches 0x00 it returns normally, A, X, Y, the flags and memory
\* are those the last instruction left, and nothing more is executed: from the
\* halted state only a new lifecycle call changes anything.
C7_HaltReturns ==
    [][ /\ (phase = "running" /\ pc < MemoryLen /\ MemGet(memory, pc) = 0)
            => /\ phase' = "halted"
               /\ fault' = NoFault
               /\ UNCHANGED <<a, x, y, status, memory>>
        /\ phase = "halted" => calls' = calls + 1
      ]_vars

\* LDA #$FF; ADC #$01; BRK has run to its halt.
C7_Witness ==
    /\ phase = "halted"
    /\ opcode = 0
    /\ steps = 3
    /\ a = 0
    /\ Flag(Carry)

\* ------------------------------------------------------------ C8
\* C8: an instruction fetched at p that completes leaves pc = p + its descriptor's
\* byte length, and its operand is the one at p + 1 (shown on LDA immediate,
\* zero-page and absolute).
C8_PcAdvance ==
    [][ (phase = "running" /\ phase' = "running")
            => /\ fetched_at' = pc
               /\ pc' = pc + INSTRUCTION_MAP[opcode'].bytes
               /\ opcode' = 169 => a' = MemGet(memory, pc + 1)
               /\ opcode' = 165 => a' = MemGet(memory, MemGet(memory, pc + 1))
               /\ opcode' = 173 =>
                    a' = MemGet(memory, MemGet(memory, pc + 1)
                                        + 256 * MemGet(memory, pc + 2))
      ]_vars

\* LDA $0210 fetched at 0x8000 has completed.
C8_Witness ==
    /\ phase = "running"
    /\ steps = 1
    /\ opcode = 173
    /\ a = 129
    /\ pc = PROGRAM_START_ADDRESS + 3

\* ------------------------------------------------------------ C9
\* The opcodes whose handler's only effect on the status register is
\* update_zero_and_negative_flags of the register it wrote.
ZNOpcodesA == {169, 165, 181, 173, 189, 185, 161, 177, 138, 152,
               41, 37, 53, 45, 61, 57, 33, 49, 9, 5, 21, 13, 29, 25, 1, 17}

ZNOpcodesX == {162, 166, 182, 174, 190, 170, 202, 232}

ZNOpcodesY == {160, 164, 180, 172, 188, 168, 200, 136}

ZNValue(op, na, nx, ny) ==
    CASE op \in ZNOpcodesA -> na
      [] op \in ZNOpcodesX -> nx
      [] op \in ZNOpcodesY -> ny

ZNStep == /\ phase = "running" /\ phase' = "running"
          /\ opcode' \in ZNOpcodesA \cup ZNOpcodesX \cup ZNOpcodesY

ZNFromValue(s, v) ==
    /\ FlagSet(s, Zero) <=> v = 0
    /\ FlagSet(s, Negative) <=> v >= 128

\* C9 as stated: update_zero_and_negative_flags(v) leaves Zero set exactly when
\* v = 0 and Negative exactly when bit 7 of v is 1, whichever instruction called
\* it, and changes no other status bit.
C9_ZeroNegativeOnly ==
    [][ ZNStep => /\ ZNFromValue(status', ZNValue(opcode', a', x', y'))
                  /\ BitAnd(status', 255 - Zero - Negative)
                        = BitAnd(status, 255 - Zero - Negative)
      ]_vars

\* C9 as amended: Zero and Negative as stated, and none of the other named flags
\* (Carry, InterruptDisable, Decimal, Overflow) changes; the unused bits 4 and 5
\* are cleared.
C9_ZeroNegativeNamed ==
    [][ ZNStep => /\ ZNFromValue(status', ZNValue(opcode', a', x', y'))
                  /\ BitAnd(status', Carry + InterruptDisable + Decimal + Overflow)
                        = BitAnd(status, Carry + InterruptDisable + Decimal + Overflow)
                  /\ BitAnd(status', 16 + 32) = 0
      ]_vars

\* LDA #$80 has run from a status with Carry, Zero and Overflow set.
C9_Witness ==
    /\ steps = 1
    /\ opcode = 169
    /\ a = 128
    /\ Flag(Negative) /\ ~Flag(Zero)
    /\ Flag(Carry) /\ Flag(Overflow)

\* ------------------------------------------------------------ C10
\* C10: ADC leaves A = (a + m + c) mod 256, Carry = 1 exactly when a + m + c > 255,
\* Overflow = 1 exactly when a and m have the same sign and the result the other
\* sign, and Zero/Negative from the new A.
C10_Adc ==
    [][ (phase = "running" /\ phase' = "running" /\ opcode' = 105)
            => LET m == MemGet(memory, pc + 1)
                   c == IF Flag(Carry) THEN 1 ELSE 0
                   sum == a + m + c
               IN  /\ a' = sum % 256
                   /\ FlagSet(status', Carry) <=> sum > 255
                   /\ FlagSet(status', Overflow)
                        <=> /\ (a >= 128) <=> (m >= 128)
                            /\ (a' >= 128) <=> ~(a >= 128)
                   /\ ZNFromValue(status', a')
      ]_vars

\* ADC #$01 on A = 0xFF with Carry clear has run: A = 0, Carry set, no overflow.
C10_Witness ==
    /\ steps = 1
    /\ opcode = 105
    /\ MemGet(memory, PROGRAM_START_ADDRESS + 1) = 1
    /\ a = 0
    /\ Flag(Carry) /\ Flag(Zero) /\ ~Flag(Overflow)


\* ------------------------------------------------------------ C11
\* The value of a byte read as a two's-complement number
Signed(v) == IF v >= 128 THEN v - 256 ELSE v

\* C11: SBC leaves A = (a + (255 - m) + c) mod 256, which is a - m - (1 - c)
\* modulo 256, Carry = 1 exactly when no borrow occurred (a + (255 - m) + c > 255),
\* and Overflow = 1 exactly when the signed value of a - m - (1 - c) lies outside
\* -128..127.
C11_Sbc ==
    [][ (phase = "running" /\ phase' = "running" /\ opcode' = 233)
            => LET m == MemGet(memory, pc + 1)
                   c == IF Flag(Carry) THEN 1 ELSE 0
                   sum == a + (255 - m) + c
                   diff == Signed(a) - Signed(m) - (1 - c)
               IN  /\ a' = sum % 256
                   /\ a' = (a - m - (1 - c) + 256) % 256
                   /\ FlagSet(status', Carry) <=> sum > 255
                   /\ FlagSet(status', Overflow) <=> (diff < -128 \/ diff > 127)
      ]_vars

\* SBC #$B0 on A = 0x50 with Carry clear has run: A = 0x9F, a borrow, and a
\* signed overflow (80 - (-80) - 1 = 159).
C11_Witness ==
    /\ steps = 1
    /\ opcode = 233
    /\ MemGet(memory, PROGRAM_START_ADDRESS + 1) = 176
    /\ a = 159
    /\ ~Flag(Carry) /\ Flag(Overflow) /\ Flag(Negative)

\* ------------------------------------------------------------ C12
\* In SpecRol x and y keep the accumulator and the carry bit from before the
\* first rotate.
RolledTimes(n) == prog = Prog(RolProgram) /\ phase = "running" /\ steps = n

\* C12 as stated: ROL A executed eight times in a row returns the accumulator to
\* its original value and Carry to its pre-rotation state.
C12_RolEightIdentity ==
    RolledTimes(8) => (a = x /\ get_carry_flag(status) = y)

\* C12 as amended: ROL A rotates the nine bits Carry:A, so eight in a row leave
\* them rotated right by one place: A = 128 * (Carry before) + (A before) div 2
\* and Carry = bit 0 of A before.
C12_RolEightIsOneRight ==
    RolledTimes(8) => /\ a = 128 * y + (x \div 2)
                      /\ get_carry_flag(status) = x % 2

\* Eight rotates of A = 0x13 with Carry clear have run: A = 0x09, Carry set.
C12_Witness ==
    /\ RolledTimes(8)
    /\ x = 19 /\ y = 0
    /\ a = 9
    /\ Flag(Carry)

\* ------------------------------------------------------------ C13
\* C13: ROL A executed nine times in a row returns both the accumulator and the
\* Carry flag to the values they had before the first rotate.
C13_RolNineIdentity ==
    RolledTimes(9) => (a = x /\ get_carry_flag(status) = y)

\* Nine rotates of A = 0x13 with Carry clear have run: A = 0x13, Carry clear.
C13_Witness ==
    /\ RolledTimes(9)
    /\ x = 19 /\ y = 0
    /\ a = 19
    /\ ~Flag(Carry)

\* ------------------------------------------------------------ C14
\* The effective address of the INC/DEC opcode op at pc, from the operand bytes
\* after it: zero page, zero page + X (8-bit wrap), absolute, absolute + X
\* (16-bit wrap).
CountAddr(op) ==
    LET lo == MemGet(memory, pc + 1)
        word == lo + 256 * MemGet(memory, pc + 2)
    IN  CASE op \in {230, 198} -> lo
          [] op \in {246, 214} -> (lo + x) % 256
          [] op \in {238, 206} -> word
          [] op \in {254, 222} -> (word + x) % 65536

CountDelta(op) == IF op \in {230, 246, 238, 254, 232, 200} THEN 1 ELSE 255

EffectiveAddress(mode) ==
    LET lo == MemGet(memory, pc + 1)
        word == lo + 256 * MemGet(memory, pc + 2)
        Pointer(p) == MemGet(memory, p) + 256 * MemGet(memory, (p + 1) % 256)
    IN  CASE mode = "Immediate" -> pc + 1
          [] mode = "ZeroPage" -> lo
          [] mode = "ZeroPageX" -> (lo + x) % 256
          [] mode = "ZeroPageY" -> (lo + y) % 256
          [] mode = "Absolute" -> word
          [] mode = "AbsoluteX" -> (word + x) % 65536
          [] mode = "AbsoluteY" -> (word + y) % 65536
          [] mode = "IndirectX" -> Pointer((lo + x) % 256)
          [] mode = "IndirectY" -> (Pointer(lo) + y) % 65536

\* The effective address of the opcode op at pc, in the mode its descriptor names
AddressOf(op) == EffectiveAddress(INSTRUCTION_MAP[op].addressing_mode)

\* The instruction at pc is op's and it completes in this step.
Completes(ops) ==
    phase = "running" /\ phase' = "running" /\ MemGet(memory, pc) \in ops

\* C15: after LDA/LDX/LDY the named register equals the memory byte at the
\* effective address, and after TAX/TXA/TAY/TYA the destination register equals
\* the source register; in both cases Zero and Negative are set from the byte
\* written to the destination, and the source (memory byte or register) is
\* unchanged.
C15_LoadTransfer ==
    [][ LET op == MemGet(memory, pc)
        IN  /\ Completes({169, 165, 181, 173, 189, 185, 161, 177})
                => /\ a' = MemGet(memory, AddressOf(op))
                   /\ ZNFromValue(status', a')
                   /\ memory' = memory
            /\ Completes({162, 166, 182, 174, 190})
                => /\ x' = MemGet(memory, AddressOf(op))
                   /\ ZNFromValue(status', x')
                   /\ memory' = memory
            /\ Completes({160, 164, 180, 172, 188})
                => /\ y' = MemGet(memory, AddressOf(op))
                   /\ ZNFromValue(status', y')
                   /\ memory' = memory
            /\ Completes({170}) => (x' = a /\ a' = a /\ ZNFromValue(status', x'))
            /\ Completes({138}) => (a' = x /\ x' = x /\ ZNFromValue(status', a'))
            /\ Completes({168}) => (y' = a /\ a' = a /\ ZNFromValue(status', y'))
            /\ Completes({152}) => (a' = y /\ y' = y /\ ZNFromValue(status', a'))
      ]_vars

\* LDA ($10),Y with Y = 0 has read the byte 0x81 at 0x0210 through the pointer at
\* 0x10/0x11, from a status with Negative clear.
C15_Witness ==
    /\ phase = "running"
    /\ steps = 1
    /\ opcode = 177
    /\ y = 0
    /\ a = 129
    /\ MemGet(memory, 528) = 129
    /\ Flag(Negative) /\ ~Flag(Zero) /\ ~Flag(Carry)

\* ------------------------------------------------------------ C16
StoredRegister(op) ==
    CASE op \in {133, 149, 141, 157, 153, 129, 145} -> a
      [] op \in {134, 150, 142} -> x
      [] op \in {132, 148, 140} -> y

\* C16: STA/STX/STY write the register's value to the memory byte at the
\* effective address and change nothing else: every status flag, A, X, Y and
\* every other memory byte are unchanged.
C16_StoreOnly ==
    [][ LET op == MemGet(memory, pc)
        IN  Completes({133, 149, 141, 157, 153, 129, 145, 134, 150, 142, 132, 148, 140})
                => /\ MemGet(memory', AddressOf(op)) = StoredRegister(op)
                   /\ \A k \in (DOMAIN memory \cup DOMAIN memory') \ {AddressOf(op)} :
                        MemGet(memory', k) = MemGet(memory, k)
                   /\ UNCHANGED <<a, x, y, status>>
      ]_vars

\* STA $10 with A = 0x81 has run from the default status: the byte is stored and
\* Negative is still clear.
C16_Witness ==
    /\ phase = "running"
    /\ steps = 1
    /\ opcode = 133
    /\ a = 129
    /\ MemGet(memory, 16) = 129
    /\ status = DefaultStatus

\* ------------------------------------------------------------ C17
OnAccumulator(op) == INSTRUCTION_MAP[op].addressing_mode = "Accumulator"

\* The operand of the shift or rotate at pc before the step, and after it
ShiftOperand(op) ==
    IF OnAccumulator(op) THEN a ELSE MemGet(memory, AddressOf(op))

ShiftOperandAfter(op) ==
    IF OnAccumulator(op) THEN a' ELSE MemGet(memory', AddressOf(op))

\* Nothing but the operand is written: memory in Accumulator mode, the accumulator
\* and the other memory bytes otherwise.
ShiftFrame(op) ==
    /\ UNCHANGED <<x, y>>
    /\ IF OnAccumulator(op) THEN memory' = memory
       ELSE /\ a' = a
            /\ \A k \in (DOMAIN memory \cup DOMAIN memory') \ {AddressOf(op)} :
                    MemGet(memory', k) = MemGet(memory, k)

\* C17: ASL writes (2 * v) mod 256 and sets Carry to bit 7 of v; LSR writes
\* v div 2 and sets Carry to bit 0 of v; the vacated bit is 0 whatever Carry was
\* before, Zero/Negative come from the result, and the operand is the accumulator
\* in Accumulator mode and the memory byte at the effective address otherwise.
C17_Shifts ==
    [][ LET op == MemGet(memory, pc)
        IN  /\ Completes(AslOpcodes)
                => /\ ShiftOperandAfter(op) = (2 * ShiftOperand(op)) % 256
                   /\ get_carry_flag(status') = ShiftOperand(op) \div 128
                   /\ ZNFromValue(status', ShiftOperandAfter(op))
                   /\ ShiftFrame(op)
            /\ Completes(LsrOpcodes)
                => /\ ShiftOperandAfter(op) = ShiftOperand(op) \div 2
                   /\ get_carry_flag(status') = ShiftOperand(op) % 2
                   /\ ZNFromValue(status', ShiftOperandAfter(op))
                   /\ ShiftFrame(op)
      ]_vars

\* LSR $10 on the byte 0x01 has run from a status with Carry and Overflow set:
\* the byte is 0x00 (nothing shifted in), Carry and Zero are set.
C17_Witness ==
    /\ phase = "running"
    /\ steps = 1
    /\ opcode = 70
    /\ a = 1
    /\ MemGet(memory, 16) = 0
    /\ Flag(Carry) /\ Flag(Zero) /\ Flag(Overflow)

\* ------------------------------------------------------------ C18
\* C18: ROL writes ((2 * v) mod 256) + c and sets Carry to bit 7 of v; ROR writes
\* (v div 2) + 128 * c and sets Carry to bit 0 of v, where c is the Carry value
\* from before the instruction, in both accumulator and memory forms.
C18_Rotates ==
    [][ LET op == MemGet(memory, pc)
            c == get_carry_flag(status)
        IN  /\ Completes(RolOpcodes)
                => /\ ShiftOperandAfter(op) = ((2 * ShiftOperand(op)) % 256) + c
                   /\ get_carry_flag(status') = ShiftOperand(op) \div 128
                   /\ ShiftFrame(op)
            /\ Completes(RorOpcodes)
                => /\ ShiftOperandAfter(op) = (ShiftOperand(op) \div 2) + 128 * c
                   /\ get_carry_flag(status') = ShiftOperand(op) % 2
                   /\ ShiftFrame(op)
      ]_vars

\* ROR A on A = 0x01 has run from a status with Carry clear: A = 0x00 although
\* the rotate produced a carry.
C18_Witness ==
    /\ phase = "running"
    /\ steps = 1
    /\ opcode = 106
    /\ a = 0
    /\ MemGet(memory, 16) = 1
    /\ Flag(Carry) /\ Flag(Zero) /\ ~Flag(Negative)

\* ------------------------------------------------------------ C19
\* No call has been made on the Cpu since Cpu::new returned it.
JustConstructed == calls = 0

MemoryAllZero == \A k \in 0..(MemoryLen - 1) : MemGet(memory, k) = 0

\* C19 as stated: immediately after construction every register of the register
\* file (A, X, Y, the status register, SP and PC) and every memory byte is zero.
C19_ConstructedZeroed ==
    JustConstructed
        => /\ a = 0 /\ x = 0 /\ y = 0 /\ sp = 0 /\ pc = 0
           /\ status = 0
           /\ MemoryAllZero

\* C19 as amended: immediately after construction A, X, Y, SP, PC and every
\* memory byte are zero, and the status register holds the default pattern
\* 0b00100100 (InterruptDisable and bit 5 set).
C19_ConstructedDefaults ==
    JustConstructed
        => /\ a = 0 /\ x = 0 /\ y = 0 /\ sp = 0 /\ pc = 0
           /\ status = InterruptDisable + 32
           /\ MemoryAllZero

\* The Cpu as Cpu::new returned it, before any call.
C19_Witness ==
    /\ JustConstructed
    /\ phase = "idle"
    /\ hist = <<"new", "new", "new">>
    /\ Flag(InterruptDisable)

\* ------------------------------------------------------------ C20
\* The outcome of load_and_run(image) on a Cpu with zeroed memory and the default
\* flags: how run ended, A, X, Y, the status register, pc and the failure.
Outcome(image) ==
    CASE image = <<169, 192, 170, 232, 0>> -> <<"halted", 192, 193, 0, 132, 32773, "none">>
      [] image = <<232, 0>> -> <<"halted", 0, 1, 0, 4, 32770, "none">>
      [] image = <<200, 0>> -> <<"halted", 0, 0, 1, 4, 32770, "none">>
      [] image = <<138, 0>> -> <<"halted", 0, 0, 0, 6, 32770, "none">>
      [] image = <<152, 0>> -> <<"halted", 0, 0, 0, 6, 32770, "none">>
      [] image = <<105, 1, 0>> -> <<"halted", 1, 0, 0, 4, 32771, "none">>
      [] image = <<133, 16, 0>> -> <<"halted", 0, 0, 0, 36, 32771, "none">>
      [] image = <<150, 16, 0>> -> <<"halted", 0, 0, 0, 36, 32771, "none">>
      [] image = <<189, 0, 128, 0>> -> <<"halted", 189, 0, 0, 132, 32772, "none">>
      [] image = <<2>> -> <<"failed", 0, 0, 0, 36, 32769, "unwrap_none">>

\* C20: for any program and any two Cpu states that agree on memory and on the
\* status flags but hold different A, X and Y values, load_and_run of the program
\* ends in the same outcome (the same final A, X, Y, flags, pc and memory, or the
\* same failure): every run of a program, whatever A, X and Y were before the
\* call, enters the loop with A = X = Y = 0 and ends in the one outcome of that
\* program.
C20_NoRegisterLeak ==
    /\ (hist[3] = "run" /\ steps = 0) => (a = 0 /\ x = 0 /\ y = 0)
    /\ (hist[3] = "run" /\ phase \in {"halted", "failed"})
        => \E image \in {<<169, 192, 170, 232, 0>>, <<232, 0>>, <<200, 0>>, <<138, 0>>,
                         <<152, 0>>, <<105, 1, 0>>, <<133, 16, 0>>, <<150, 16, 0>>,
                         <<189, 0, 128, 0>>, <<2>>} :
              /\ prog = Prog(image)
              /\ <<phase, a, x, y, status, pc, fault.kind>> = Outcome(image)
              /\ memory = LoadResult(EmptyMemory, prog).v

\* LDA #$C0; TAX; INX; BRK has run to its halt (the test starts it with
\* X = 0xFF): X = 0xC1.
C20_Witness ==
    /\ hist = <<"load", "reset", "run">>
    /\ phase = "halted"
    /\ prog = Prog(<<169, 192, 170, 232, 0>>)
    /\ x = 193
    /\ calls = 3

\* ------------------------------------------------------------ C21
\* C21: run eventually stops, by returning at the halt opcode or by a fatal
\* failure, from every memory content and register state: every instruction that
\* completes leaves pc strictly greater than it was, no step moves pc backwards,
\* and a running loop leads to a stopped one.
C21_RunStops ==
    /\ [][ /\ pc' >= pc
           /\ (phase = "running" /\ phase' = "running") => pc' > pc
         ]_vars
    /\ (phase = "running") ~> (phase \in {"halted", "failed"})

\* A run through memory that holds no halt opcode has ended at the end of the
\* array, after more than ten instructions.
C21_Witness ==
    /\ phase = "failed"
    /\ fault.kind = "index_out_of_bounds"
    /\ pc = MemoryLen
    /\ steps > 10

\* ------------------------------------------------------------ C22
\* The instruction about to be fetched has a descriptor with this mode.
AboutToRun(mode) ==
    /\ phase = "running"
    /\ pc + 2 < MemoryLen
    /\ MemGet(memory, pc) \in TableOpcodes
    /\ INSTRUCTION_MAP[MemGet(memory, pc)].addressing_mode = mode

\* C22: indexed address arithmetic wraps and never fails: for every operand and
\* index value ZeroPageX/ZeroPageY resolve to (operand byte + X/Y) mod 256, always
\* inside 0x0000..0x00FF, and AbsoluteX/AbsoluteY resolve to
\* (operand word + X/Y) mod 65536.
C22_IndexedWraps ==
    LET lo == MemGet(memory, pc + 1)
        word == lo + 256 * MemGet(memory, pc + 2)
    IN  /\ AboutToRun("ZeroPageX")
            => /\ get_address("ZeroPageX") = Ok((lo + x) % 256)
               /\ get_address("ZeroPageX").v \in 0..255
        /\ AboutToRun("ZeroPageY")
            => /\ get_address("ZeroPageY") = Ok((lo + y) % 256)
               /\ get_address("ZeroPageY").v \in 0..255
        /\ AboutToRun("AbsoluteX") => get_address("AbsoluteX") = Ok((word + x) % 65536)
        /\ AboutToRun("AbsoluteY") => get_address("AbsoluteY") = Ok((word + y) % 65536)

\* LDA $FFFF,X with X = 1 has read the byte at 0x0000.
C22_Witness ==
    /\ phase = "running"
    /\ steps = 1
    /\ opcode = 189
    /\ MemGet(memory, PROGRAM_START_ADDRESS + 1) = 255
    /\ MemGet(memory, PROGRAM_START_ADDRESS + 2) = 255
    /\ x = 1
    /\ a = 66

\* ------------------------------------------------------------ C23
\* The little-endian word at the zero-page pointer p, its high byte taken from
\* (p + 1) mod 256
ZeroPagePointer(p) == MemGet(memory, p) + 256 * MemGet(memory, (p + 1) % 256)

\* C23: IndirectX resolves to the little-endian word read from the zero-page
\* pointer p = (operand byte + X) mod 256, and IndirectY to the word read from
\* the zero-page pointer p = operand byte, plus Y, mod 65536; in both the high
\* byte is read from (p + 1) mod 256, so a pointer at 0xFF takes its high byte
\* from 0x00.
C23_IndirectPointers ==
    LET lo == MemGet(memory, pc + 1)
    IN  /\ AboutToRun("IndirectX")
            => get_address("IndirectX") = Ok(ZeroPagePointer((lo + x) % 256))
        /\ AboutToRun("IndirectY")
            => get_address("IndirectY") = Ok((ZeroPagePointer(lo) + y) % 65536)

\* LDA ($FF),Y with Y = 0 has read the byte at 0x0210 through the pointer whose
\* low byte is at 0xFF and whose high byte is at 0x00.
C23_Witness ==
    /\ phase = "running"
    /\ steps = 1
    /\ opcode = 177
    /\ MemGet(memory, PROGRAM_START_ADDRESS + 1) = 255
    /\ y = 0
    /\ a = 129

\* ------------------------------------------------------------ C24
\* The instruction about to be fetched is one of ops.
Executes(ops) == phase = "running" /\ MemGet(memory, pc) \in ops

\* The opcodes of the loads, stores, transfers, increments/decrements, AND and ORA
CarryKeepingOpcodes ==
    {169, 165, 181, 173, 189, 185, 161, 177, 162, 166, 182, 174, 190,
     160, 164, 180, 172, 188,
     133, 149, 141, 157, 153, 129, 145, 134, 150, 142, 132, 148, 140,
     170, 138, 168, 152,
     230, 246, 238, 254, 198, 214, 206, 222, 202, 232, 200, 136,
     41, 37, 53, 45, 61, 57, 33, 49, 9, 5, 21, 13, 29, 25, 1, 17}

\* C24: every load, store, transfer, INC/DEC/INX/DEX/INY/DEY, AND and ORA
\* instruction leaves both Carry and Overflow unchanged, and ASL/LSR/ROL/ROR leave
\* Overflow unchanged.
C24_CarryOverflowFrame ==
    [][ /\ Executes(CarryKeepingOpcodes)
            => BitAnd(status', Carry + Overflow) = BitAnd(status, Carry + Overflow)
        /\ Executes({10, 6, 22, 14, 30, 74, 70, 86, 78, 94,
                     42, 38, 54, 46, 62, 106, 102, 118, 110, 126})
            => BitAnd(status', Overflow) = BitAnd(status, Overflow)
      ]_vars

\* DEC $10 on the byte 0x02 has run from a status with Carry, Zero and Overflow
\* set: the byte is 0x01 and Zero is cleared, Carry and Overflow are still set.
C24_Witness ==
    /\ phase = "running"
    /\ steps = 1
    /\ opcode = 198
    /\ MemGet(memory, 16) = 1 /\ MemGet(memory, 17) = 2
    /\ ~Flag(Zero) /\ Flag(Carry) /\ Flag(Overflow)

\* ------------------------------------------------------------ C25
\* C25: in every state reachable from Cpu::new through any sequence of load,
\* reset and run, the Zero and Negative flags are never both set.
C25_ZeroNegativeExclusive == ~(Flag(Zero) /\ Flag(Negative))

\* LDA #$00; LDX #$80; BRK has run to its halt: the second load has set Negative
\* and cleared the Zero that the first had set.
C25_Witness ==
    /\ phase = "halted"
    /\ prog = Prog(<<169, 0, 162, 128, 0>>)
    /\ a = 0 /\ x = 128
    /\ Flag(Negative) /\ ~Flag(Zero)

\* ------------------------------------------------------------ C26
\* C26 as stated: in every state reachable from Cpu::new through any sequence of
\* load, reset and run, InterruptDisable = 1, Decimal = 0, status bit 5 = 1 and
\* status bit 4 = 0.
C26_FixedBits ==
    /\ Flag(InterruptDisable)
    /\ ~Flag(Decimal)
    /\ BitAnd(status, 32) = 32
    /\ BitAnd(status, 16) = 0

\* C26 as amended: in every such state InterruptDisable = 1, Decimal = 0 and
\* status bit 4 = 0; status bit 5 is 1 after Cpu::new and after every reset, and
\* an instruction that clears a flag clears it as well (until the next reset).
C26_FixedNamedBits ==
    /\ Flag(InterruptDisable)
    /\ ~Flag(Decimal)
    /\ BitAnd(status, 16) = 0
    /\ (calls = 0 \/ hist[3] = "reset") => BitAnd(status, 32) = 32

\* A run has halted with bit 5 cleared, and the Cpu has been reset after it.
C26_Witness ==
    /\ hist = <<"reset", "run", "reset">>
    /\ calls = 4
    /\ status = InterruptDisable + 32 + Negative

\* ------------------------------------------------------------ C27
\* This step is the lifecycle call of the given name.
Calls(name) == calls' = calls + 1 /\ hist'[3] = name

\* C27: load(program) changes only the memory bytes 0x8000 .. 0x8000 + len - 1
\* and the reset vector 0xFFFC-0xFFFD, leaving A, X, Y, the flags, SP, PC and
\* every other memory byte unchanged; reset changes no memory byte and does not
\* change SP.
C27_LoadResetFrame ==
    [][ /\ Calls("load")
            => /\ UNCHANGED <<a, x, y, status, sp, pc>>
               /\ \A k \in DOMAIN memory \cup DOMAIN memory' :
                    (/\ ~(PROGRAM_START_ADDRESS <= k
                            /\ k < PROGRAM_START_ADDRESS + prog'.len)
                     /\ k # PROGRAM_COUNTER_RESET_ADDRESS
                     /\ k # PROGRAM_COUNTER_RESET_ADDRESS + 1)
                        => MemGet(memory', k) = MemGet(memory, k)
        /\ Calls("reset") => UNCHANGED <<memory, sp>>
      ]_vars

\* A three-byte program has been loaded over a six-byte one, after a byte was
\* written at 0x10: the byte and the tail of the longer program are still there.
C27_Witness ==
    /\ hist = <<"mem_write", "load", "load">>
    /\ phase = "idle"
    /\ prog = Prog(<<169, 5, 0>>)
    /\ MemGet(memory, PROGRAM_START_ADDRESS) = 169
    /\ MemGet(memory, PROGRAM_START_ADDRESS + 1) = 5
    /\ MemGet(memory, PROGRAM_START_ADDRESS + 3) = 232
    /\ MemGet(memory, 16) = 85

\* ------------------------------------------------------------ C28
\* The mnemonics whose handler resolves an address in every mode, and those whose
\* handler does so in every mode but Accumulator
AddressTaking ==
    {"LDA", "STA", "LDX", "STX", "LDY", "STY", "ADC", "SBC", "INC", "DEC", "AND", "ORA"}

ShiftMnemonics == {"ASL", "LSR", "ROL", "ROR"}

\* No descriptor of a dispatched opcode sends Implicit or Accumulator to the
\* address resolver.
ResolvableModes ==
    \A op \in Dispatched \cap TableOpcodes :
        /\ INSTRUCTION_MAP[op].mnemonic \in AddressTaking
            => INSTRUCTION_MAP[op].addressing_mode \notin {"Implicit", "Accumulator"}
        /\ INSTRUCTION_MAP[op].mnemonic \in ShiftMnemonics
            => INSTRUCTION_MAP[op].addressing_mode # "Implicit"

\* C28: for every opcode that run dispatches to a handler, the address resolver
\* is never called with Implicit or Accumulator mode, so the
\* unsupported-addressing-mode fault occurs in no run with the shipped table.
C28_NoUnsupportedMode ==
    /\ ResolvableModes
    /\ fault.kind # "todo"

\* ASL A on A = 0x81 has completed without resolving an address.
C28_Witness ==
    /\ phase = "running"
    /\ steps = 1
    /\ opcode = 10
    /\ a = 2
    /\ Flag(Carry)
    /\ fault = NoFault

\* ------------------------------------------------------------ C29
\* The byte length of an instruction in the given mode: the opcode and its
\* operand bytes
ModeLength(mode) ==
    CASE mode \in {"Implicit", "Accumulator"} -> 1
      [] mode \in {"Immediate", "ZeroPage", "ZeroPageX", "ZeroPageY",
                   "IndirectX", "IndirectY"} -> 2
      [] mode \in {"Absolute", "AbsoluteX", "AbsoluteY"} -> 3

\* Every row's length matches its mode, no opcode is in two rows, and the map
\* holds each row under its opcode and nothing else.
TableWellFormed ==
    /\ \A i \in DOMAIN CPU_INSTRUCTIONS :
            /\ Descriptor(CPU_INSTRUCTIONS[i]).addressing_mode
                    \in {"Implicit", "Accumulator", "Immediate", "ZeroPage", "ZeroPageX",
                         "ZeroPageY", "IndirectX", "IndirectY", "Absolute", "AbsoluteX",
                         "AbsoluteY"}
            /\ Descriptor(CPU_INSTRUCTIONS[i]).bytes
                    = ModeLength(Descriptor(CPU_INSTRUCTIONS[i]).addressing_mode)
            /\ INSTRUCTION_MAP[CPU_INSTRUCTIONS[i][1]] = Descriptor(CPU_INSTRUCTIONS[i])
    /\ \A i \in DOMAIN CPU_INSTRUCTIONS : \A j \in DOMAIN CPU_INSTRUCTIONS :
            i # j => CPU_INSTRUCTIONS[i][1] # CPU_INSTRUCTIONS[j][1]
    /\ Cardinality(DOMAIN INSTRUCTION_MAP) = Len(CPU_INSTRUCTIONS)

\* C29: every descriptor in the opcode table has a byte length that matches its
\* addressing mode (1 for Implicit and Accumulator, 2 for Immediate, ZeroPage,
\* ZeroPageX, ZeroPageY, IndirectX and IndirectY, 3 for Absolute, AbsoluteX and
\* AbsoluteY), and no opcode value appears in two descriptors, so the map has
\* exactly one entry per table row; an instruction that completes has moved pc
\* by the length of its mode.
C29_TableLengths ==
    /\ TableWellFormed
    /\ (phase = "running" /\ steps >= 1)
        => pc - fetched_at = ModeLength(INSTRUCTION_MAP[opcode].addressing_mode)

\* LDX $0210,Y, a three-byte instruction, has completed.
C29_Witness ==
    /\ phase = "running"
    /\ steps = 1
    /\ opcode = 190
    /\ x = 129
    /\ pc = fetched_at + 3
====
